---- MODULE Spec2Model ----
(***************************************************************************)
(* Pip, the chat-first wine assistant: the useChat hook of the web client  *)
(* (sendMessage, handleAction, addMessage, clearChat) driving the chat     *)
(* orchestrator (intent classification, dispatch, the confirmation         *)
(* protocol for destructive cellar actions, correction handling).          *)
(***************************************************************************)
EXTENDS Integers, Sequences, FiniteSets, TLC

\* ------------------------------------------------------------- bounds
\* Number of sendMessage calls one run of the model makes.
MaxCalls == 3
\* Number of conversations (session ids) the server hands out.
MaxSessions == 2
\* Longest word sequence the classifier is applied to in ClassifySpec.
MaxLen == 3
\* Number of sendMessage calls awaiting their response at one time.
MaxInFlight == 1

\* ------------------------------------------------------------- values
None == "none"
Bottles == {"b1", "b2"}
Sessions == 1..MaxSessions

\* The 13 intent types of the taxonomy.
IntentTypes ==
  {"recommend", "educate_general", "educate_specific", "cellar_add",
   "cellar_query", "cellar_remove", "rate", "profile_query", "decide",
   "analyze_photo", "correction", "off_topic", "unclear"}

\* Orchestrator states and the edges of the declared state machine
\* Idle -> Classifying -> Dispatching -> {AgentHandling | ConfirmationPending}
\*      -> Responding -> Idle, with the ambiguity branch that short-circuits
\* from classification to Responding.
OStates ==
  {"Idle", "Classifying", "Dispatching", "AgentHandling",
   "ConfirmationPending", "Responding"}

DeclaredEdges ==
  {<<"Idle", "Classifying">>, <<"Classifying", "Dispatching">>,
   <<"Dispatching", "AgentHandling">>, <<"Dispatching", "ConfirmationPending">>,
   <<"AgentHandling", "Responding">>, <<"ConfirmationPending", "Responding">>,
   <<"Responding", "Idle">>, <<"Classifying", "Responding">>}

\* ------------------------------------------------------------- messages
\* A chat message is its words (punctuation dropped), the wine its explicit
\* name resolves to (None when it names no wine) and whether an image is
\* attached.
Msg(w, r, img) == [words |-> w, ref |-> r, image |-> img]

\* Texts the client's action buttons send (useChat.handleAction).
RemoveBottleText(b) == Msg(<<"Remove", "wine", "from", "my", "cellar">>, b, FALSE)
RemoveThisText == Msg(<<"Remove", "this", "from", "my", "cellar">>, None, FALSE)
AddCellarText(b) == Msg(<<"Add", "wine", "to", "my", "cellar">>, b, FALSE)
ConfirmText == Msg(<<"Yes", "confirm">>, None, FALSE)
CancelText == Msg(<<"Actually", "never", "mind">>, None, FALSE)
UndoText == Msg(<<"Undo", "that">>, None, FALSE)
RecommendText == Msg(<<"Help", "me", "find", "a", "wine">>, None, FALSE)
\* ChatContainer's file input.
PhotoText == Msg(<<"Identify", "this", "wine">>, None, TRUE)
\* Texts typed into ChatInput.
YesRemoveText == Msg(<<"yes", "remove", "it">>, None, FALSE)
NeverMindText == Msg(<<"never", "mind">>, None, FALSE)
RateText(b) == Msg(<<"rate", "wine", "five", "stars">>, b, FALSE)
ResetText == Msg(<<"reset", "my", "profile">>, None, FALSE)
YesResetText == Msg(<<"yes", "reset", "it">>, None, FALSE)
GibberishText == Msg(<<"asdf">>, None, FALSE)

\* The texts the model's user sends: b1 is in the cellar from the start, b2 is
\* a wine of the catalog.
ActionTexts ==
  {RemoveBottleText("b1"), AddCellarText("b2"), RemoveThisText, ConfirmText,
   CancelText, UndoText}

TypedTexts == {RateText("b1"), YesRemoveText, ResetText, GibberishText}

NoMsg == Msg(<<>>, None, FALSE)

\* ------------------------------------------------------------- classifier
\* p occurs in w as a run of consecutive words (re.search of a pattern).
Infix(p, w) ==
  \E i \in 0..(Len(w) - Len(p)) : SubSeq(w, i + 1, i + Len(p)) = p

\* CORRECTION_PATTERNS, each alternative of each regular expression written
\* out as the words it matches; the patterns are matched whatever the case of
\* the message ("Actually, make that 3 stars", "Nevermind, don't add that" and
\* "No, I meant the Pinot" are corrections).
CORRECTION_PATTERNS ==
  {<<"actually", "make", "that">>, <<"actually", "change", "that", "to">>,
   <<"actually", "i", "meant">>,
   <<"no", "i", "meant">>, <<"no", "not", "that">>, <<"no", "the", "other">>,
   <<"nevermind">>, <<"never", "mind">>, <<"cancel", "that">>,
   <<"undo">>, <<"remove", "that">>, <<"take", "that", "back">>}

UndoPatterns ==
  {<<"nevermind">>, <<"never", "mind">>, <<"cancel", "that">>,
   <<"undo">>, <<"remove", "that">>, <<"take", "that", "back">>}

SwitchPatterns ==
  {<<"no", "i", "meant">>, <<"no", "not", "that">>, <<"no", "the", "other">>}

Lower(w) ==
  CASE w = "Remove" -> "remove"
    [] w = "Add" -> "add"
    [] w = "Yes" -> "yes"
    [] w = "Actually" -> "actually"
    [] w = "Help" -> "help"
    [] w = "Identify" -> "identify"
    [] w = "Undo" -> "undo"
    [] w = "Nevermind" -> "nevermind"
    [] w = "No" -> "no"
    [] w = "I" -> "i"
    [] OTHER -> w

\* p occurs in the lowered words of w as a run of consecutive words
\* (re.search of a pattern, ignoring case).
InfixLower(p, w) ==
  \E i \in 1..(Len(w) - Len(p) + 1) :
    \A j \in 1..Len(p) : Lower(w[i + j - 1]) = p[j]

is_correctionMutant(message) ==
  \E p \in CORRECTION_PATTERNS : Infix(p, message.words)

is_correction(message) ==
  \E p \in CORRECTION_PATTERNS : InfixLower(p, message.words)

parse_correction_type(message) ==
  IF \E p \in UndoPatterns : InfixLower(p, message.words) THEN "undo"
  ELSE IF \E p \in SwitchPatterns : InfixLower(p, message.words) THEN "switch_target"
  ELSE "change_value"

\* History entries are {role, content}; the content of an assistant entry is
\* the reply it shows, kept here as its kind and the wine it is about. The
\* client's entries carry no cards.
Entry(role, kind, r) == [role |-> role, kind |-> kind, ref |-> r, cards |-> <<>>]

\* An assistant entry of a history that carries the wine ids of the cards the
\* reply showed ({"role": "assistant", "content": ..., "cards": [...]}).
CardEntry(cards) ==
  [role |-> "assistant", kind |-> "answer", ref |-> None, cards |-> cards]

\* The replies that report an action taken, and the action each reports.
ActionKinds == {"added", "rated", "removed", "reset_done"}

ActionOfKind(kind) ==
  CASE kind = "added" -> "cellar_add"
    [] kind = "rated" -> "rate"
    [] kind = "removed" -> "cellar_remove"
    [] kind = "reset_done" -> "profile_reset"
    [] OTHER -> None

NoAction == [type |-> None, ref |-> None]

\* The last action taken that the history records.
RECURSIVE find_last_action(_)
find_last_action(history) ==
  IF history = <<>> THEN NoAction
  ELSE LET e == history[Len(history)] IN
       IF e.role = "assistant" /\ e.kind \in ActionKinds
       THEN [type |-> ActionOfKind(e.kind), ref |-> e.ref]
       ELSE find_last_action(SubSeq(history, 1, Len(history) - 1))

\* The label the completion returns for a message: the type the prompt asks
\* for when the message opens with a word it knows, a label outside the
\* taxonomy when it does not, and unparseable output for an empty message.
RawLabel(message, attachments) ==
  IF attachments > 0 THEN "analyze_photo"
  ELSE IF message.words = <<>> THEN "MALFORMED"
  ELSE LET w == Lower(message.words[1]) IN
    CASE w = "remove" -> "cellar_remove"
      [] w = "add" -> "cellar_add"
      [] w = "rate" -> "rate"
      [] w = "reset" -> "profile_query"
      [] w = "help" -> "recommend"
      [] w = "why" -> "educate_general"
      [] w = "pick" -> "decide"
      [] w = "weather" -> "off_topic"
      [] OTHER -> "no_such_intent"

NormaliseMutant(raw) == raw

\* A label outside the taxonomy maps to unclear.
NormaliseType(raw) == IF raw \in IntentTypes THEN raw ELSE "unclear"

NeedsTarget(type) == type \in {"cellar_add", "cellar_remove", "rate"}

\* ------------------------------------------------------ reference resolution
\* The position an ordinal of the message names ("the second one"), 0 when the
\* message holds no ordinal.
OrdinalOf(message) ==
  LET has(x) == \E i \in 1..Len(message.words) : Lower(message.words[i]) = x
  IN CASE has("first") -> 1
       [] has("second") -> 2
       [] has("third") -> 3
       [] OTHER -> 0

\* The message holds a singular anaphor ("it", "this", "that wine").
HasPronoun(message) ==
  \E i \in 1..Len(message.words) : Lower(message.words[i]) \in {"it", "this", "that"}

HasAnaphor(message) == OrdinalOf(message) > 0 \/ HasPronoun(message)

\* The most recent assistant message of the history (none: NoEntry).
NoEntry == [role |-> None, kind |-> None, ref |-> None, cards |-> <<>>]

LastAssistant(history) ==
  IF \A i \in 1..Len(history) : history[i].role # "assistant" THEN NoEntry
  ELSE history[CHOOSE i \in 1..Len(history) :
                 /\ history[i].role = "assistant"
                 /\ \A j \in (i + 1)..Len(history) : history[j].role # "assistant"]

\* The entities present in an assistant message: the wines of its cards, or
\* the wine its text is about when it shows no card.
EntitiesOf(e) ==
  IF e.cards # <<>> THEN e.cards
  ELSE IF e.ref # None THEN <<e.ref>> ELSE <<>>

\* Strategy 1: the wine the message names.
ByName(message) == IF message.ref # None THEN <<message.ref>> ELSE <<>>

\* Strategy 2: the ordinal's position in the last card list; cards[1] of the
\* source is the second card.
ByOrdinalMutant(message, history) ==
  LET k == OrdinalOf(message)
      cards == LastAssistant(history).cards
  IN IF k > 0 /\ k + 1 <= Len(cards) THEN <<cards[k + 1]>> ELSE <<>>

ByOrdinal(message, history) ==
  LET k == OrdinalOf(message)
      cards == LastAssistant(history).cards
  IN IF k > 0 /\ k <= Len(cards) THEN <<cards[k]>> ELSE <<>>

\* Strategy 3: the one entity of the most recent assistant message, for a
\* singular anaphor.
BySingular(message, history) ==
  LET ents == EntitiesOf(LastAssistant(history))
  IN IF HasPronoun(message) /\ Len(ents) = 1 THEN ents ELSE <<>>

\* Resolution priority: explicit name match > ordinal position in the last
\* card list > singular recent entity > fail.
resolve_referencesMutant(message, history) ==
  IF ByOrdinal(message, history) # <<>> THEN ByOrdinal(message, history)
  ELSE IF ByName(message) # <<>> THEN ByName(message)
  ELSE BySingular(message, history)

resolve_references(message, history) ==
  IF ByName(message) # <<>> THEN ByName(message)
  ELSE IF ByOrdinal(message, history) # <<>> THEN ByOrdinal(message, history)
  ELSE BySingular(message, history)

Intent(type, amb, ents, refs, ctarget, ctype) ==
  [type |-> type,
   is_ambiguous |-> amb,
   ambiguity_reason |-> IF amb THEN "unclear_target" ELSE None,
   clarifying_question |-> IF amb THEN "Which wine do you mean?" ELSE None,
   extracted_entities |-> ents,
   resolved_references |-> refs,
   correction_target |-> ctarget,
   correction_type |-> ctype]

classify_correction(message, history) ==
  Intent("correction", FALSE, None, <<>>, find_last_action(history),
         parse_correction_type(message))

classify(message, attachments, history) ==
  IF is_correction(message)
  THEN classify_correction(message, history)
  ELSE LET type == NormaliseType(RawLabel(message, attachments))
           ents == IF type = "profile_query" /\ message.words # <<>>
                        /\ Lower(message.words[1]) = "reset"
                   THEN "reset" ELSE None
       IN IF resolve_references(message, history) # <<>>
          THEN Intent(type, FALSE, ents, resolve_references(message, history),
                      NoAction, None)
          ELSE Intent(type,
                      NeedsTarget(type) \/ (HasAnaphor(message) /\ attachments = 0),
                      ents, <<>>, NoAction, None)

NoIntent == Intent(None, FALSE, None, <<>>, NoAction, None)

\* ------------------------------------------------- Agent 1: interpret
\* A request is the phrases the user wrote; retrieved knowledge is the facts
\* the knowledge store returned. The two vocabularies are kept apart so that
\* the provenance of every token of a SearchQuery can be told.
UserPhrases == {"red", "under40", "napa", "italian", "steak"}
KnowledgeFacts == {"bold", "oaky"}

Has(seq, x) == \E i \in 1..Len(seq) : seq[i] = x

\* null in a field that holds a number: a price bound, top_n.
NoPrice == -1
NoTopN == 0
NoRange == <<NoPrice, NoPrice>>

\* ExtractedFilters: the JSON the extraction returns for a description, null
\* for every field the description gives no signal for.
extract_filters(description) ==
  [price_min |-> NoPrice,
   price_max |-> IF Has(description, "under40") THEN 40 ELSE NoPrice,
   wine_type |-> IF Has(description, "red") THEN "red" ELSE None,
   region |-> IF Has(description, "napa") THEN "napa" ELSE None,
   country |-> IF Has(description, "italian") THEN "italy" ELSE None,
   occasion |-> None,
   food_pairing |-> IF Has(description, "steak") THEN "steak" ELSE None]

\* ExtractedFilters.price_range: the extracted bounds, nothing when neither
\* bound was extracted.
ExtractedPriceRange(x) == <<x.price_min, x.price_max>>

\* Python's "a or b", for a string or null and for a price range or null.
Or(a, b) == IF a # None THEN a ELSE b

RangeOr(a, b) == IF a # NoRange THEN a ELSE b

UserPreferences(bmin, bmax, type, food) ==
  [budget_min |-> bmin, budget_max |-> bmax, wine_type_pref |-> type,
   food_pairing |-> food]

\* SearchQuery as interpret constructs it: the fields it does not pass keep the
\* schema's defaults.
SearchQuery(query_text, category_knowledge, user_request, price_range, wine_type_filter, region_filter, occasion) ==
  [query_text |-> query_text,
   category_knowledge |-> category_knowledge,
   user_request |-> user_request,
   price_range |-> price_range,
   wine_type_filter |-> wine_type_filter,
   region_filter |-> region_filter,
   country_filter |-> None,
   varietal_filter |-> None,
   occasion |-> occasion,
   food_pairing |-> None]

NoQuery == SearchQuery(<<>>, <<>>, <<>>, NoRange, None, None, None)

\* _summarize_category: the facts of the retrieved chunks, each once; empty
\* when the lookup returned no chunk.
RECURSIVE summarize_category(_)
summarize_category(chunks) ==
  IF chunks = <<>> THEN <<>>
  ELSE LET rest == summarize_category(SubSeq(chunks, 1, Len(chunks) - 1))
           f == chunks[Len(chunks)]
       IN IF Has(rest, f) THEN rest ELSE Append(rest, f)

\* _generate_search_query: the fused string used for the embedding search.
generate_search_query(description, chunks) ==
  description \o summarize_category(chunks)

interpretMutant(description, user_prefs, chunks) ==
  LET extracted == extract_filters(description)
  IN SearchQuery(generate_search_query(description, chunks),
                 summarize_category(chunks),
                 generate_search_query(description, chunks),
                 RangeOr(ExtractedPriceRange(extracted),
                         <<user_prefs.budget_min, user_prefs.budget_max>>),
                 Or(extracted.wine_type, user_prefs.wine_type_pref),
                 extracted.region, extracted.occasion)

\* PreferenceInterpreter.interpret.
interpret(description, user_prefs, chunks) ==
  LET extracted == extract_filters(description)
      price_range == RangeOr(ExtractedPriceRange(extracted),
                             <<user_prefs.budget_min, user_prefs.budget_max>>)
      wine_type == Or(extracted.wine_type, user_prefs.wine_type_pref)
      region == extracted.region
      occasion == extracted.occasion
      category_knowledge == summarize_category(chunks)
      query_text == generate_search_query(description, chunks)
  IN SearchQuery(query_text, category_knowledge, description, price_range,
                 wine_type, region, occasion)

\* ------------------------------------------------- Agent 2: search
\* The catalog index: each wine with its metadata and the words its listing is
\* embedded from.
Wine(id, type, price, region, country, varietal, rating, words) ==
  [id |-> id, wine_type |-> type, price |-> price, region |-> region,
   country |-> country, varietal |-> varietal, rating |-> rating,
   words |-> words]

Catalog ==
  <<Wine("w1", "red", 30, "napa", "usa", "cabernet", 4,
         {"red", "napa", "bold", "oaky", "steak"}),
    Wine("w2", "red", 50, "napa", "usa", "pinot", 4, {"red", "napa", "steak"}),
    Wine("w3", "white", 30, "loire", "france", "chenin", 5, {"under40"}),
    Wine("w4", "red", 35, "tuscany", "italy", "sangiovese", 3,
         {"red", "italian", "bold", "steak"}),
    Wine("w5", "red", 22, "napa", "usa", "cabernet", 4,
         {"red", "napa", "bold", "oaky", "steak"})>>

\* Similarity of a wine to the query text: the words of the query text the
\* wine's listing shares.
Similarity(query_text, w) ==
  Cardinality({i \in 1..Len(query_text) : query_text[i] \in w.words})

\* The hard metadata filters of a query; a filter that is null filters
\* nothing.
PassesFiltersMutant(w, q) ==
  /\ q.price_range[1] # NoPrice => w.price >= q.price_range[1]
  /\ q.price_range[2] # NoPrice => w.price <= q.price_range[2]
  /\ q.wine_type_filter # None => w.wine_type = q.wine_type_filter
  /\ q.country_filter # None => w.country = q.country_filter
  /\ q.varietal_filter # None => w.varietal = q.varietal_filter

PassesFilters(w, q) ==
  /\ q.price_range[1] # NoPrice => w.price >= q.price_range[1]
  /\ q.price_range[2] # NoPrice => w.price <= q.price_range[2]
  /\ q.wine_type_filter # None => w.wine_type = q.wine_type_filter
  /\ q.region_filter # None => w.region = q.region_filter
  /\ q.country_filter # None => w.country = q.country_filter
  /\ q.varietal_filter # None => w.varietal = q.varietal_filter

\* Twice the distance of a price to the midpoint of the requested range; no
\* distance when the range is open.
PriceDistance(w, q) ==
  IF q.price_range[1] = NoPrice \/ q.price_range[2] = NoPrice THEN 0
  ELSE LET d == 2 * w.price - (q.price_range[1] + q.price_range[2])
       IN IF d < 0 THEN 0 - d ELSE d

\* Catalog entry a ranks before entry b: higher similarity, then higher
\* rating, then closer to the midpoint of the price range, then index order.
BeforeMutant(a, b, q) ==
  LET wa == Catalog[a]
      wb == Catalog[b]
      sa == Similarity(q.query_text, wa)
      sb == Similarity(q.query_text, wb)
  IN \/ sa > sb
     \/ sa = sb /\ PriceDistance(wa, q) < PriceDistance(wb, q)
     \/ sa = sb /\ PriceDistance(wa, q) = PriceDistance(wb, q)
        /\ wa.rating > wb.rating
     \/ sa = sb /\ PriceDistance(wa, q) = PriceDistance(wb, q)
        /\ wa.rating = wb.rating /\ a < b

Before(a, b, q) ==
  LET wa == Catalog[a]
      wb == Catalog[b]
      sa == Similarity(q.query_text, wa)
      sb == Similarity(q.query_text, wb)
  IN \/ sa > sb
     \/ sa = sb /\ wa.rating > wb.rating
     \/ sa = sb /\ wa.rating = wb.rating
        /\ PriceDistance(wa, q) < PriceDistance(wb, q)
     \/ sa = sb /\ wa.rating = wb.rating
        /\ PriceDistance(wa, q) = PriceDistance(wb, q) /\ a < b

DEFAULT_TOP_N == 3

TopNMutant(top_n) == IF top_n = NoTopN THEN Len(Catalog) ELSE top_n

TopN(top_n) == IF top_n = NoTopN THEN DEFAULT_TOP_N ELSE top_n

\* create_agent2_explanation_prompt: what the explanation may attribute to the
\* user, what it may teach about the category, and the wine it is about.
Explanation(user_request, category_knowledge, w) ==
  [asked |-> user_request, education |-> category_knowledge, wine |-> w.id]

WineRecommendation(w, q) ==
  [wine |-> w, relevance_score |-> Similarity(q.query_text, w),
   explanation |-> Explanation(q.user_request, q.category_knowledge, w)]

\* search(query, top_n): filter, rank, cut to top_n, explain.
search(q, top_n) ==
  LET survivors == {a \in 1..Len(Catalog) : PassesFilters(Catalog[a], q)}
      rank(a) == Cardinality({b \in survivors : Before(b, a, q)}) + 1
      n == IF Cardinality(survivors) < TopN(top_n)
           THEN Cardinality(survivors) ELSE TopN(top_n)
  IN [i \in 1..n |->
        WineRecommendation(Catalog[CHOOSE a \in survivors : rank(a) = i], q)]

\* ------------------------------------------------- Decide agent
\* A cellar row: its status and the score _score_bottles gives it for the
\* occasion asked about.
CellarBottle(id, status, score) == [id |-> id, status |-> status, score |-> score]

BottleStatuses == {"owned", "tried", "wishlist"}

\* The minimum relevance a bottle needs to count as a match.
MinRelevance == 2

\* CellarBottle.query.filter_by(status="owned").all(): the owned rows, in the
\* order of the table.
RECURSIVE OwnedBottlesMutant(_)
OwnedBottlesMutant(rows) ==
  IF rows = <<>> THEN <<>>
  ELSE LET rest == OwnedBottlesMutant(SubSeq(rows, 1, Len(rows) - 1))
           r == rows[Len(rows)]
       IN IF r.status # "wishlist" THEN Append(rest, r) ELSE rest

RECURSIVE OwnedBottles(_)
OwnedBottles(rows) ==
  IF rows = <<>> THEN <<>>
  ELSE LET rest == OwnedBottles(SubSeq(rows, 1, Len(rows) - 1))
           r == rows[Len(rows)]
       IN IF r.status = "owned" THEN Append(rest, r) ELSE rest

\* _score_bottles: the bottles that match the occasion, best first; empty when
\* none is a good match.
score_bottles(owned) ==
  LET good == {i \in 1..Len(owned) : owned[i].score >= MinRelevance}
      before(i, j) == \/ owned[i].score > owned[j].score
                      \/ owned[i].score = owned[j].score /\ i < j
      rank(i) == Cardinality({j \in good : before(j, i)}) + 1
  IN [k \in 1..Cardinality(good) |-> owned[CHOOSE i \in good : rank(i) = k]]

DecideResponse(message, cards) == [message |-> message, cards |-> cards]

NoDecideResponse == DecideResponse(None, <<>>)

\* DecideAgent.handle.
decide(rows) ==
  LET owned_bottles == OwnedBottles(rows)
      scored == score_bottles(owned_bottles)
  IN IF owned_bottles = <<>> THEN DecideResponse("empty_cellar", <<>>)
     ELSE IF scored = <<>>
     THEN DecideResponse("in_a_pinch", <<owned_bottles[1]>>)
     ELSE DecideResponse("winner", <<scored[1]>>)

\* ------------------------------------------------------------- state
VARIABLES
  \* useChat (client)
  messages,     \* the messages shown
  historyRef,   \* the rolling history sent as context
  isLoading,
  expectsCards,
  error,
  sessionId,    \* the session id of the last response (0: none yet)
  calls,        \* every sendMessage call: its request and what became of it
  \* server
  cellar,       \* the user's cellar: rows per wine
  rated,        \* wines of the cellar that carry a rating
  profile,      \* wines whose signals the taste profile holds
  nsess,        \* sessions handed out so far
  mseq,         \* per session: messages received
  ostate,       \* per session: the orchestrator's state
  cur,          \* per session: the call being processed (0 when idle)
  conf,         \* per session: the confirmation the current message came with
  pending,      \* per session: the pending ConfirmationRequest
  intent,       \* per session: the classified intent
  handler,      \* per session: the handler dispatched to
  response,     \* per session: the response being built
  \* agents
  reco,         \* the recommendation pipeline: its inputs, SearchQuery, result
  pick,         \* the decide agent: the cellar rows it reads and its response
  \* useChat, first version (recommendations only)
  recMessages,  \* the messages shown
  recIsLoading,
  recError,
  recCalls,     \* every sendMessage call: where it stands
  \* ProfileService
  userProfile,  \* the stored UserProfile
  ratings,      \* the rating events merged so far
  \* web client: token storage, ApiClient, AuthProvider
  accessToken,  \* localStorage: the access token (0: none)
  refreshToken, \* localStorage: the refresh token (0: none)
  isRefreshing,
  refreshPromise, \* the refresh the promise belongs to (0: null)
  refreshes,    \* every refresh request: where it stands
  reqs,         \* every ApiClient.request call: where it stands
  user,         \* AuthProvider: the user (0: null)
  authLoading   \* AuthProvider: isLoading

clientVars == <<messages, historyRef, isLoading, expectsCards, error, sessionId>>
dbVars == <<cellar, rated, profile>>
orchVars == <<nsess, mseq, ostate, cur, conf, pending, intent, handler, response>>
agentVars == <<reco, pick>>
recVars == <<recMessages, recIsLoading, recError, recCalls>>
profileVars == <<userProfile, ratings>>
authVars == <<accessToken, refreshToken, isRefreshing, refreshPromise, refreshes, reqs, user, authLoading>>
webVars == <<recVars, profileVars, authVars>>
vars == <<clientVars, calls, dbVars, orchVars, agentVars, webVars>>

\* A sendMessage call is its request (content, sid, history), where it stands
\* at the client and at the server, the response on its way back, and
\* bookkeeping for the properties: the session and position it was received
\* at, and the numbers of responses, dispatches and chat messages it gave
\* rise to.
\* ConfirmationRequest {action, target_id, destructive}; by is the call whose
\* response carried it (bookkeeping for the properties).
Confirmation(action, target, c) ==
  [action |-> action, target_id |-> target, destructive |-> TRUE, by |-> c]

NoConf == [action |-> None, target_id |-> None, destructive |-> FALSE, by |-> 0]

\* ChatResponse: the reply, the wine it is about, the confirmation it asks
\* for, and the error it reports.
Resp(kind, r, k, err) ==
  [kind |-> kind, ref |-> r, confirmation |-> k, error |-> err, session_id |-> 0]

NoResp == Resp(None, None, NoConf, None)

NoHandler == [name |-> None, target |-> None]

Call(content, sid, history) ==
  [content |-> content, sid |-> sid, history |-> history,
   client |-> "pending", server |-> "sent",
   sess |-> 0, seq |-> 0, resp |-> NoResp, nresp |-> 0, ndisp |-> 0,
   nuser |-> 0, nasst |-> 0]

WELCOME_MESSAGE == [role |-> "assistant", kind |-> "welcome", ref |-> None, call |-> 0]

HistoryCap == 20
HistorySent == 10

Last(s, n) == IF Len(s) > n THEN SubSeq(s, Len(s) - n + 1, Len(s)) ELSE s

\* The recommendation pipeline and the decide agent before any request.
NoReco ==
  [stage |-> "idle", description |-> <<>>,
   user_prefs |-> UserPreferences(NoPrice, NoPrice, None, None), chunks |-> <<>>,
   top_n |-> NoTopN, query |-> NoQuery, recs |-> <<>>]

NoPick == [stage |-> "idle", rows |-> <<>>, response |-> NoDecideResponse]

\* The chat before any message: the client after construction, the server with
\* b1 in the cellar and every session idle.
ChatInit ==
  /\ messages = <<WELCOME_MESSAGE>>
  /\ historyRef = <<>>
  /\ isLoading = FALSE
  /\ expectsCards = FALSE
  /\ error = None
  /\ sessionId = 0
  /\ calls = <<>>
  /\ cellar = [b \in Bottles |-> IF b = "b1" THEN 1 ELSE 0]
  /\ rated = {}
  /\ profile = {}
  /\ nsess = 0
  /\ mseq = [s \in Sessions |-> 0]
  /\ ostate = [s \in Sessions |-> "Idle"]
  /\ cur = [s \in Sessions |-> 0]
  /\ conf = [s \in Sessions |-> NoConf]
  /\ pending = [s \in Sessions |-> NoConf]
  /\ intent = [s \in Sessions |-> NoIntent]
  /\ handler = [s \in Sessions |-> NoHandler]
  /\ response = [s \in Sessions |-> NoResp]

\* The first version of the hook after construction.
REC_WELCOME == [role |-> "assistant", content |-> <<"Hello! I'm your wine sommelier.">>]

RecInit ==
  /\ recMessages = <<REC_WELCOME>>
  /\ recIsLoading = FALSE
  /\ recError = None
  /\ recCalls = <<>>

\* No rating has been merged: the profile's columns hold their defaults.
NoProfile == [preferred_attributes |-> {}, avoided_attributes |-> {}, total_ratings |-> 0]

ProfileInit ==
  /\ userProfile = NoProfile
  /\ ratings = <<>>

\* Nobody is signed in and nothing is stored.
SignedOut ==
  /\ accessToken = 0
  /\ refreshToken = 0
  /\ isRefreshing = FALSE
  /\ refreshPromise = 0
  /\ refreshes = <<>>
  /\ reqs = <<>>
  /\ user = 0
  /\ authLoading = FALSE

WebInit == RecInit /\ ProfileInit /\ SignedOut

Init ==
  /\ ChatInit
  /\ reco = NoReco
  /\ pick = NoPick
  /\ WebInit

\* ------------------------------------------------------------- orchestrator
\* The texts that affirm a pending confirmation: the reply's own affirmative
\* action, or the client's confirm button.
AffirmativeTexts(k) ==
  CASE k.action = "cellar_remove" -> {YesRemoveText.words, ConfirmText.words}
    [] k.action = "profile_reset" -> {YesResetText.words, ConfirmText.words}
    [] OTHER -> {}

MatchesMutant(message, k) == k # NoConf

Matches(message, k) == k # NoConf /\ message.words \in AffirmativeTexts(k)

\* ConfirmationRequest state is kept under the session's identity.
StorePendingMutant(p, s, k) == [p EXCEPT ![1] = k]

StorePending(p, s, k) == [p EXCEPT ![s] = k]

\* A pending confirmation is decided by the next message of its session,
\* whatever that message is: it is taken out when the message arrives.
ExpireMutant(p, s) == p

Expire(p, s) == StorePending(p, s, NoConf)

\* A request arrives: the session is the one it names, or a new one; the
\* session's pending confirmation is taken out to be decided by this message.
Receive(c, s) ==
  /\ c \in DOMAIN calls
  /\ calls[c].server = "sent"
  /\ IF calls[c].sid # 0 THEN s = calls[c].sid ELSE s = nsess + 1
  /\ s \in Sessions
  /\ ostate[s] = "Idle"
  /\ ostate' = [ostate EXCEPT ![s] = "Classifying"]
  /\ cur' = [cur EXCEPT ![s] = c]
  /\ conf' = [conf EXCEPT ![s] = pending[s]]
  /\ pending' = Expire(pending, s)
  /\ mseq' = [mseq EXCEPT ![s] = @ + 1]
  /\ nsess' = IF s > nsess THEN s ELSE nsess
  /\ calls' = [calls EXCEPT ![c].server = "processing", ![c].sess = s,
                            ![c].seq = mseq[s] + 1]
  /\ UNCHANGED <<clientVars, dbVars, intent, handler, response, agentVars, webVars>>

Attachments(message) == IF message.image THEN 1 ELSE 0

\* process: if intent.is_ambiguous, return the clarifying question.
ShortCircuitsMutant(i) == FALSE

ShortCircuits(i) == i.is_ambiguous

\* process: classify; an ambiguous intent is answered with the clarifying
\* question at once, without routing to an agent.
Classify(s) ==
  /\ ostate[s] = "Classifying"
  /\ \E i \in {classify(calls[cur[s]].content, Attachments(calls[cur[s]].content),
                        calls[cur[s]].history)} :
       /\ intent' = [intent EXCEPT ![s] = i]
       /\ IF ShortCircuits(i)
          THEN /\ ostate' = [ostate EXCEPT ![s] = "Responding"]
               /\ response' = [response EXCEPT ![s] = Resp("clarify", None, NoConf, None)]
          ELSE /\ ostate' = [ostate EXCEPT ![s] = "Dispatching"]
               /\ UNCHANGED response
  /\ UNCHANGED <<clientVars, calls, dbVars, nsess, mseq, cur, conf, pending, handler, agentVars, webVars>>

\* The agent an intent is routed to (ChatOrchestrator.process, match intent.type).
Route(i) ==
  CASE i.type = "cellar_add" -> "cellar_add"
    [] i.type = "cellar_remove" -> "cellar_remove"
    [] i.type = "rate" -> "rate"
    [] i.type = "profile_query" /\ i.extracted_entities = "reset" -> "profile_reset"
    [] i.type = "correction" -> "correction"
    [] OTHER -> "answer"

Target(i) ==
  IF i.resolved_references = <<>> THEN None ELSE i.resolved_references[1]

\* Destructive actions go through the confirmation protocol.
DestructiveMutant(name, target) == FALSE

Destructive(name, target) ==
  \/ name = "cellar_remove" /\ target \in Bottles /\ cellar[target] > 0
  \/ name = "profile_reset"

\* Dispatch: a message that affirms the confirmation it came with executes the
\* confirmed action; any other message is routed as a fresh message.
Dispatch(s) ==
  /\ ostate[s] = "Dispatching"
  /\ LET c == cur[s]
         m == calls[c].content
         k == conf[s]
         h == IF Matches(m, k)
              THEN [name |-> "confirm_" \o k.action, target |-> k.target_id]
              ELSE [name |-> Route(intent[s]),
                    target |-> IF Route(intent[s]) = "profile_reset"
                               THEN "profile" ELSE Target(intent[s])]
     IN /\ handler' = [handler EXCEPT ![s] = h]
        /\ ostate' = [ostate EXCEPT ![s] =
                        IF Destructive(h.name, h.target)
                        THEN "ConfirmationPending" ELSE "AgentHandling"]
        /\ calls' = [calls EXCEPT ![c].ndisp = @ + 1]
  /\ UNCHANGED <<clientVars, dbVars, nsess, mseq, cur, conf, pending, intent, response, agentVars, webVars>>

\* What a handler does to the stored data and what it replies.
Db == [cellar |-> cellar, rated |-> rated, profile |-> profile]

Outcome(db, kind, r) == [db |-> db, kind |-> kind, ref |-> r]

\* CorrectionAgent.handle, correction_type "undo": the last action is reversed.
UndoLastAction(db, a) ==
  CASE a.type = "cellar_add" /\ db.cellar[a.ref] > 0 ->
         Outcome([db EXCEPT !.cellar[a.ref] = @ - 1], "undone", a.ref)
    [] a.type = "rate" ->
         Outcome([db EXCEPT !.rated = @ \ {a.ref}], "undone", a.ref)
    [] a.type = "cellar_remove" ->
         Outcome([db EXCEPT !.cellar[a.ref] = @ + 1], "undone", a.ref)
    [] OTHER -> Outcome(db, "nothing_to_undo", None)

\* The handler cannot run to completion (it raises whatever it is given).
MustRaise(h, db) ==
  h.name = "confirm_cellar_remove" /\ db.cellar[h.target] = 0

Handle(h, i, db) ==
  CASE h.name = "cellar_add" ->
         Outcome([db EXCEPT !.cellar[h.target] = @ + 1], "added", h.target)
    [] h.name = "rate" ->
         IF db.cellar[h.target] > 0
         THEN Outcome([db EXCEPT !.rated = @ \cup {h.target},
                                 !.profile = @ \cup {h.target}], "rated", h.target)
         ELSE Outcome(db, "not_in_cellar", h.target)
    [] h.name = "cellar_remove" -> Outcome(db, "not_in_cellar", h.target)
    [] h.name = "confirm_cellar_remove" ->
         Outcome([db EXCEPT !.cellar[h.target] = @ - 1], "removed", h.target)
    [] h.name = "confirm_profile_reset" ->
         Outcome([db EXCEPT !.profile = {}], "reset_done", None)
    [] h.name = "correction" ->
         IF i.correction_type = "undo"
         THEN UndoLastAction(db, i.correction_target)
         ELSE Outcome(db, "answer", None)
    [] OTHER -> Outcome(db, "answer", None)

\* Where the orchestrator goes when the handler has returned or raised.
AfterHandlerMutant(raised) == IF raised THEN "Idle" ELSE "Responding"

AfterHandler(raised) == "Responding"

\* The agent returns: its changes are committed and its reply is the response.
AgentRun(s) ==
  /\ ostate[s] = "AgentHandling"
  /\ ~MustRaise(handler[s], Db)
  /\ LET o == Handle(handler[s], intent[s], Db)
     IN /\ cellar' = o.db.cellar
        /\ rated' = o.db.rated
        /\ profile' = o.db.profile
        /\ response' = [response EXCEPT ![s] = Resp(o.kind, o.ref, NoConf, None)]
  /\ ostate' = [ostate EXCEPT ![s] = AfterHandler(FALSE)]
  /\ UNCHANGED <<clientVars, calls, nsess, mseq, cur, conf, pending, intent, handler, agentVars, webVars>>

\* The data a raising handler leaves behind: nothing of what it had staged.
AfterRaiseMutant(h, i, db) == IF MustRaise(h, db) THEN db ELSE Handle(h, i, db).db

AfterRaise(h, i, db) == db

\* The agent raises: the generic error is the response.
AgentRaise(s) ==
  /\ ostate[s] = "AgentHandling"
  /\ LET db == AfterRaise(handler[s], intent[s], Db)
     IN /\ cellar' = db.cellar
        /\ rated' = db.rated
        /\ profile' = db.profile
  /\ response' = [response EXCEPT ![s] = Resp("error", None, NoConf, "error")]
  /\ ostate' = [ostate EXCEPT ![s] = AfterHandler(TRUE)]
  /\ UNCHANGED <<clientVars, calls, nsess, mseq, cur, conf, pending, intent, handler, agentVars, webVars>>

\* CellarAgent.remove: nothing is executed, the reply asks for confirmation.
EmitConfirmation(s) ==
  /\ ostate[s] = "ConfirmationPending"
  /\ LET h == handler[s]
     IN response' = [response EXCEPT ![s] =
          Resp("confirm_request", IF h.target \in Bottles THEN h.target ELSE None,
               Confirmation(h.name, h.target, cur[s]), None)]
  /\ ostate' = [ostate EXCEPT ![s] = "Responding"]
  /\ UNCHANGED <<clientVars, calls, dbVars, nsess, mseq, cur, conf, pending, intent, handler, agentVars, webVars>>

\* The response goes out with the session's id; the confirmation it carries,
\* if any, is the session's pending confirmation from now on.
Respond(s) ==
  /\ ostate[s] = "Responding"
  /\ LET c == cur[s]
     IN calls' = [calls EXCEPT ![c].server = "replied",
                               ![c].resp = IF calls[c].client = "pending"
                                           THEN [response[s] EXCEPT !.session_id = s]
                                           ELSE NoResp,
                               ![c].nresp = @ + 1,
                               ![c].content = NoMsg,
                               ![c].history = <<>>]
  /\ pending' = IF response[s].confirmation # NoConf
                THEN StorePending(pending, s, response[s].confirmation)
                ELSE pending
  /\ ostate' = [ostate EXCEPT ![s] = "Idle"]
  /\ cur' = [cur EXCEPT ![s] = 0]
  /\ conf' = [conf EXCEPT ![s] = NoConf]
  /\ intent' = [intent EXCEPT ![s] = NoIntent]
  /\ handler' = [handler EXCEPT ![s] = NoHandler]
  /\ response' = [response EXCEPT ![s] = NoResp]
  /\ UNCHANGED <<clientVars, dbVars, nsess, mseq, agentVars, webVars>>

\* ------------------------------------------------------------- useChat
\* Keywords that suggest the response will include wine cards, each as the
\* words it is made of.
CARD_KEYWORDS ==
  {<<"recommend">>, <<"find">>, <<"suggest">>, <<"looking", "for">>,
   <<"want", "a">>, <<"need", "a">>, <<"cellar">>, <<"saved">>,
   <<"my", "wines">>, <<"what", "wines">>, <<"show", "me">>,
   <<"what", "do", "i", "have">>, <<"identify">>, <<"scan">>, <<"tried">>,
   <<"want", "to", "try">>, <<"wines", "to", "try">>}

expectsCardsFromMessage(message) ==
  \E k \in CARD_KEYWORDS : InfixLower(k, message.words)

\* addMessage: the message is shown and pushed on the history, which keeps
\* its last 20 entries.
addMessageMutant(shown, m) == IF m.kind = "fallback" THEN shown ELSE Append(shown, m)

addMessage(shown, m) == Append(shown, m)

AddToHistoryMutant(h, e) == IF Len(h) >= HistoryCap THEN h ELSE Append(h, e)

AddToHistory(h, e) == Last(Append(h, e), HistoryCap)

\* sendMessage up to the await of api.chat. ChatInput submits only while
\* not loading; the action buttons are never disabled.
InFlight == {c \in DOMAIN calls : calls[c].client = "pending"}

sendMessage(content, viaAction) ==
  /\ Len(calls) < MaxCalls
  /\ viaAction \/ ~isLoading
  /\ LET c == Len(calls) + 1
         h == AddToHistory(historyRef, Entry("user", "user", None))
         shown == addMessage(messages, [role |-> "user", kind |-> "user",
                                        ref |-> None, call |-> c])
     IN /\ messages' = shown
        /\ historyRef' = h
        /\ calls' = Append(calls, [Call(content, sessionId, Last(h, HistorySent))
                                     EXCEPT !.nuser = Len(shown) - Len(messages)])
  /\ isLoading' = TRUE
  /\ expectsCards' = (expectsCardsFromMessage(content) \/ content.image)
  /\ error' = None
  /\ UNCHANGED <<sessionId, dbVars, orchVars, agentVars, webVars>>

\* sendMessage with the server taking one request at a time.
SendMessage(content, viaAction) ==
  /\ Cardinality(InFlight) < MaxInFlight
  /\ sendMessage(content, viaAction)

\* Store session ID for continuity: the id of the response, if it has one.
setSessionIdMutant(current, session_id) == IF current # 0 THEN current ELSE session_id

setSessionId(current, session_id) == IF session_id # 0 THEN session_id ELSE current

\* api.chat resolved: the try block and finally.
ChatResolve(c) ==
  /\ c \in DOMAIN calls
  /\ calls[c].client = "pending"
  /\ calls[c].server = "replied"
  /\ LET r == calls[c].resp
         shown == addMessage(messages, [role |-> "assistant", kind |-> r.kind,
                                        ref |-> r.ref, call |-> c])
     IN /\ sessionId' = setSessionId(sessionId, r.session_id)
        /\ messages' = shown
        /\ historyRef' = AddToHistory(historyRef, Entry("assistant", r.kind, r.ref))
        /\ error' = IF r.error # None THEN r.error ELSE error
        /\ calls' = [calls EXCEPT ![c].client = "done", ![c].resp = NoResp,
                                  ![c].nasst = @ + Len(shown) - Len(messages)]
  /\ isLoading' = FALSE
  /\ expectsCards' = FALSE
  /\ UNCHANGED <<dbVars, orchVars, agentVars, webVars>>

\* api.chat rejected (no connection, an error status, a lost response): the
\* catch block and finally.
ChatReject(c) ==
  /\ c \in DOMAIN calls
  /\ calls[c].client = "pending"
  /\ calls[c].server \in {"sent", "replied"}
  /\ error' = "Failed to send message"
  /\ LET shown == addMessage(messages, [role |-> "assistant", kind |-> "fallback",
                                        ref |-> None, call |-> c])
     IN /\ messages' = shown
        /\ calls' = [calls EXCEPT ![c].client = "failed", ![c].resp = NoResp,
                                  ![c].server = IF @ = "sent" THEN "lost" ELSE @,
                                  ![c].content = NoMsg, ![c].history = <<>>,
                                  ![c].nasst = @ + Len(shown) - Len(messages)]
  /\ historyRef' = AddToHistory(historyRef, Entry("assistant", "fallback", None))
  /\ isLoading' = FALSE
  /\ expectsCards' = FALSE
  /\ UNCHANGED <<sessionId, dbVars, orchVars, agentVars, webVars>>

clearChat ==
  /\ messages' = <<WELCOME_MESSAGE>>
  /\ error' = None
  /\ sessionId' = 0
  /\ historyRef' = <<>>
  /\ UNCHANGED <<isLoading, expectsCards, calls, dbVars, orchVars, agentVars, webVars>>

\* ------------------------------------------------------------- useChat alone
\* api.chat answered by a server the hook knows nothing about: the response
\* carries the session the request named, or the session the server opened
\* for it.
ApiReply(c, s) ==
  /\ c \in DOMAIN calls
  /\ calls[c].server = "sent"
  /\ calls[c].sid # 0 => s = calls[c].sid
  /\ calls' = [calls EXCEPT ![c].server = "replied", ![c].sess = s,
                            ![c].resp = [Resp("answer", None, NoConf, None)
                                           EXCEPT !.session_id = s],
                            ![c].nresp = @ + 1,
                            ![c].content = NoMsg,
                            ![c].history = <<>>]
  /\ UNCHANGED <<clientVars, dbVars, orchVars, agentVars, webVars>>

\* The texts sent to the hook alone: an action button's and a typed one.
ClientActionTexts == {RecommendText, ConfirmText}
ClientTypedTexts == {GibberishText}

ClientNext ==
  \/ \E m \in ClientActionTexts : sendMessage(m, TRUE)
  \/ \E m \in ClientTypedTexts : sendMessage(m, FALSE)
  \/ \E c \in 1..MaxCalls, s \in Sessions : ApiReply(c, s)
  \/ \E c \in 1..MaxCalls : ChatResolve(c)
  \/ \E c \in 1..MaxCalls : ChatReject(c)
  \/ clearChat

ClientSpec == Init /\ [][ClientNext]_vars

\* The hook in the middle of a conversation: n messages have been exchanged,
\* user and assistant in turn, every second answer about a wine.
PriorLengths == {0, 17, 19, 21}

PriorMessage(i) ==
  IF i % 2 = 1
  THEN [role |-> "user", kind |-> "user", ref |-> None, call |-> 0]
  ELSE [role |-> "assistant", kind |-> "answer",
        ref |-> IF i % 4 = 0 THEN "b1" ELSE None, call |-> 0]

HistoryOf(shown) == [i \in 1..Len(shown) |-> Entry(shown[i].role, shown[i].kind, shown[i].ref)]

HistoryInit ==
  /\ \E n \in PriorLengths :
       /\ messages = <<WELCOME_MESSAGE>> \o [i \in 1..n |-> PriorMessage(i)]
       /\ historyRef = Last(HistoryOf([i \in 1..n |-> PriorMessage(i)]), HistoryCap)
  /\ isLoading = FALSE
  /\ expectsCards = FALSE
  /\ error = None
  /\ sessionId = 0
  /\ calls = <<>>
  /\ cellar = [b \in Bottles |-> IF b = "b1" THEN 1 ELSE 0]
  /\ rated = {}
  /\ profile = {}
  /\ nsess = 0
  /\ mseq = [s \in Sessions |-> 0]
  /\ ostate = [s \in Sessions |-> "Idle"]
  /\ cur = [s \in Sessions |-> 0]
  /\ conf = [s \in Sessions |-> NoConf]
  /\ pending = [s \in Sessions |-> NoConf]
  /\ intent = [s \in Sessions |-> NoIntent]
  /\ handler = [s \in Sessions |-> NoHandler]
  /\ response = [s \in Sessions |-> NoResp]
  /\ reco = NoReco
  /\ pick = NoPick
  /\ WebInit

HistorySpec == HistoryInit /\ [][ClientNext]_vars

\* ------------------------------------------------------------- useChat, first version
\* What api.getRecommendations can reject with: an Error with its message, or
\* a value that is no Error.
ErrorMessages == {"HTTP 500", "Failed to fetch"}
Thrown == ErrorMessages \cup {None}

Descriptions == {"a bold red", "something for fish"}

CountText(n) == CASE n = 1 -> "1" [] n = 2 -> "2" [] OTHER -> "0"

\* The content of the assistant's message for a response of n recommendations.
assistantContent(n) ==
  IF n > 0
  THEN <<"I found ", CountText(n), IF n > 1 THEN " wines" ELSE " wine",
         " that might be perfect for you:">>
  ELSE <<"I'm still learning about wines.">>

\* The content of the message the catch block adds to the chat.
errorChatContent(errorMessage) ==
  <<"I'm sorry, I encountered an error: ", errorMessage, ". Please try again.">>

\* sendMessage up to the await of api.getRecommendations.
RecSendMessage(content) ==
  /\ Len(recCalls) < MaxCalls
  /\ ~recIsLoading
  /\ recMessages' = Append(recMessages, [role |-> "user", content |-> <<content>>])
  /\ recIsLoading' = TRUE
  /\ recError' = None
  /\ recCalls' = Append(recCalls, "pending")
  /\ UNCHANGED <<clientVars, calls, dbVars, orchVars, agentVars, profileVars, authVars>>

\* api.getRecommendations resolved with n recommendations: try and finally.
RecResolve(c, n) ==
  /\ c \in DOMAIN recCalls
  /\ recCalls[c] = "pending"
  /\ recMessages' = Append(recMessages, [role |-> "assistant", content |-> assistantContent(n)])
  /\ recIsLoading' = FALSE
  /\ recCalls' = [recCalls EXCEPT ![c] = "done"]
  /\ UNCHANGED <<recError, clientVars, calls, dbVars, orchVars, agentVars, profileVars, authVars>>

\* api.getRecommendations rejected with err: catch and finally.
RecReject(c, err) ==
  /\ c \in DOMAIN recCalls
  /\ recCalls[c] = "pending"
  /\ LET errorMessage == IF err \in ErrorMessages THEN err
                         ELSE "Failed to get recommendations"
     IN /\ recError' = errorMessage
        /\ recMessages' = Append(recMessages, [role |-> "assistant",
                                               content |-> errorChatContent(errorMessage)])
  /\ recIsLoading' = FALSE
  /\ recCalls' = [recCalls EXCEPT ![c] = "failed"]
  /\ UNCHANGED <<clientVars, calls, dbVars, orchVars, agentVars, profileVars, authVars>>

RecClearChat ==
  /\ recMessages' = <<REC_WELCOME>>
  /\ recError' = None
  /\ UNCHANGED <<recIsLoading, recCalls, clientVars, calls, dbVars, orchVars, agentVars, profileVars, authVars>>

RecNext ==
  \/ \E d \in Descriptions : RecSendMessage(d)
  \/ \E c \in 1..MaxCalls, n \in 0..2 : RecResolve(c, n)
  \/ \E c \in 1..MaxCalls, err \in Thrown : RecReject(c, err)
  \/ RecClearChat

RecSpec == Init /\ [][RecNext]_vars

\* ------------------------------------------------------------- profile
\* The wines that get rated, by the attributes the profile is inferred from.
\* Attribute lists are kept as sets: their order plays no part.
RatedWine(body, sweetness, tannin, characteristics) ==
  [body |-> body, sweetness |-> sweetness, tannin |-> tannin,
   characteristics |-> characteristics]

Barolo == RatedWine("full-bodied", "dry", "high", {"earthy"})
Riesling == RatedWine("light-bodied", "sweet", None, {"fruity"})

PreferenceSignals(preferred, avoided) == [preferred |-> preferred, avoided |-> avoided]

\* _extract_from_notes: what the notes of a rating say outright.
NoNotes == PreferenceSignals({}, {})

NotesInputs ==
  {NoNotes, PreferenceSignals({"earthy"}, {}), PreferenceSignals({}, {"dry"}),
   PreferenceSignals({"sweet"}, {}), PreferenceSignals({}, {"oaky"})}

\* PreferenceSignals.merge: explicit overrides inferred.
mergeMutant(signals, explicit) ==
  PreferenceSignals(signals.preferred \cup explicit.preferred,
                    signals.avoided \cup explicit.avoided)

merge(signals, explicit) ==
  PreferenceSignals((signals.preferred \ explicit.avoided) \cup explicit.preferred,
                    (signals.avoided \ explicit.preferred) \cup explicit.avoided)

\* ProfileService._extract_signals_from_rating
extract_signals_from_rating(wine, rating, notes) ==
  LET signals ==
        IF rating >= 4
        THEN PreferenceSignals({wine.body, wine.sweetness} \cup wine.characteristics, {})
        ELSE IF rating <= 2
        THEN PreferenceSignals({}, {wine.body, wine.sweetness} \cup
                                   (IF wine.tannin # None THEN {wine.tannin \o "-tannin"}
                                    ELSE {}))
        ELSE PreferenceSignals({}, {})
  IN IF notes # NoNotes THEN merge(signals, notes) ELSE signals

\* UserProfile.merge_signals: the new signals join the stored ones.
merge_signals(p, signals) ==
  [preferred_attributes |-> p.preferred_attributes \cup signals.preferred,
   avoided_attributes |-> p.avoided_attributes \cup signals.avoided,
   total_ratings |-> p.total_ratings + 1]

\* A rating event: CellarAgent.rate extracts the signals and
\* ProfileService.update merges them.
MaxRatings == 2

Rate(wine, rating, notes) ==
  /\ Len(ratings) < MaxRatings
  /\ userProfile' = merge_signals(userProfile,
                                  extract_signals_from_rating(wine, rating, notes))
  /\ ratings' = Append(ratings, [wine |-> wine, rating |-> rating, notes |-> notes])
  /\ UNCHANGED <<clientVars, calls, dbVars, orchVars, agentVars, recVars, authVars>>

ProfileNext ==
  \E wine \in {Barolo, Riesling}, rating \in 1..5, notes \in NotesInputs :
    Rate(wine, rating, notes)

ProfileSpec == Init /\ [][ProfileNext]_vars

\* ------------------------------------------------------------- web client: auth
\* Tokens are numbers, 0 for none: 1 is the pair a former visit left in
\* localStorage, and every login and every refresh is answered with a pair of
\* its own.
LoginToken(r) == 20 + r
RefreshedToken(k) == 10 + k

\* An ApiClient.request call: the operation it serves, whether it requires
\* auth, where it stands, the fetches sent, the Authorization of the latest
\* fetch, the refresh it awaits or awaited, the refreshAccessToken calls it
\* made, and the error it threw.
Request(op, token) ==
  [op |-> op, auth |-> op # "login", state |-> "sent", sends |-> 1,
   token |-> IF op # "login" THEN token ELSE 0, refresh |-> 0, nrefresh |-> 0,
   err |-> None]

Refresh(token) == [state |-> "inflight", token |-> token]

MaxReqs == 3

\* request() up to its first await: the fetch goes out with the stored token.
StartRequest(op) ==
  /\ Len(reqs) < MaxReqs
  /\ reqs' = Append(reqs, Request(op, accessToken))
  /\ UNCHANGED <<accessToken, refreshToken, isRefreshing, refreshPromise, refreshes, user>>
  /\ UNCHANGED <<clientVars, calls, dbVars, orchVars, agentVars, recVars, profileVars>>

\* AuthProvider.login, from GoogleLoginButton (offered while signed out and
\* not loading).
login ==
  /\ user = 0
  /\ ~authLoading
  /\ authLoading' = TRUE
  /\ StartRequest("login")

\* AuthProvider.logout, from the header and the sidebar (shown while signed in).
logout ==
  /\ user # 0
  /\ authLoading' = TRUE
  /\ StartRequest("logout")

refreshUser ==
  /\ UNCHANGED authLoading
  /\ StartRequest("getCurrentUser")

\* Any other authenticated call (saved bottles, cellar, chat).
ApiCall ==
  /\ UNCHANGED authLoading
  /\ StartRequest("api")

\* What the caller of request() does once it returned (ok) or threw:
\* login stores the tokens and the user; api.logout clears the tokens and
\* AuthProvider.logout the user; refreshUser sets the user, or clears user and
\* tokens; initAuth is refreshUser on mount.
CallerClears(op, ok) == op = "logout" \/ (op \in {"getCurrentUser", "initAuth"} /\ ~ok)

UserAfter(op, ok, u) ==
  CASE op = "login" -> IF ok THEN 1 ELSE u
    [] op = "logout" -> 0
    [] op \in {"getCurrentUser", "initAuth"} -> IF ok THEN 1 ELSE 0
    [] OTHER -> u

LoadingAfter(op, l) == IF op \in {"login", "logout", "initAuth"} THEN FALSE ELSE l

\* refreshAccessToken: a refresh that is running is joined.
AlreadyRefreshingMutant == FALSE

AlreadyRefreshing == isRefreshing

\* The Authorization of the retry: the stored token if there is one.
RetryTokenMutant(newToken, old) == old

RetryToken(newToken, old) == IF newToken # 0 THEN newToken ELSE old

\* request() returns or throws without a refresh: r ends and its caller goes on.
Settle(r, ok, cleared, err) ==
  LET op == reqs[r].op
      gone == cleared \/ CallerClears(op, ok)
  IN /\ reqs' = [reqs EXCEPT ![r].state = IF ok THEN "ok" ELSE "failed", ![r].err = err,
                             ![r].nrefresh = IF cleared THEN @ + 1 ELSE @]
     /\ accessToken' = IF op = "login" /\ ok THEN LoginToken(r)
                       ELSE IF gone THEN 0 ELSE accessToken
     /\ refreshToken' = IF op = "login" /\ ok THEN LoginToken(r)
                        ELSE IF gone THEN 0 ELSE refreshToken
     /\ user' = UserAfter(op, ok, user)
     /\ authLoading' = LoadingAfter(op, authLoading)
     /\ UNCHANGED <<isRefreshing, refreshPromise, refreshes>>

\* The first fetch of r is answered: ok, 401, or any other failure (an error
\* status, a rejected fetch). A request without Authorization is not
\* answered ok by an endpoint that requires auth.
FirstResponse(r, status) ==
  /\ r \in DOMAIN reqs
  /\ reqs[r].state = "sent"
  /\ status = "ok" => (~reqs[r].auth \/ reqs[r].token # 0)
  /\ IF status = "ok" THEN Settle(r, TRUE, FALSE, None)
     ELSE IF status = "401" /\ reqs[r].auth
     THEN IF AlreadyRefreshing
          THEN /\ reqs' = [reqs EXCEPT ![r].state = "refreshing",
                                       ![r].refresh = refreshPromise,
                                       ![r].nrefresh = @ + 1]
               /\ UNCHANGED <<accessToken, refreshToken, isRefreshing, refreshPromise,
                              refreshes, user, authLoading>>
          ELSE IF refreshToken = 0
          THEN Settle(r, FALSE, TRUE, "Session expired. Please log in again.")
          ELSE /\ isRefreshing' = TRUE
               /\ refreshes' = Append(refreshes, Refresh(refreshToken))
               /\ refreshPromise' = Len(refreshes) + 1
               /\ reqs' = [reqs EXCEPT ![r].state = "refreshing",
                                       ![r].refresh = Len(refreshes) + 1,
                                       ![r].nrefresh = @ + 1]
               /\ UNCHANGED <<accessToken, refreshToken, user, authLoading>>
     ELSE Settle(r, FALSE, FALSE, "Request failed")
  /\ UNCHANGED <<clientVars, calls, dbVars, orchVars, agentVars, recVars, profileVars>>

\* The requests awaiting refresh k.
Awaiting(k) == {r \in DOMAIN reqs : reqs[r].state = "refreshing" /\ reqs[r].refresh = k}

\* The refresh request is answered. The promise resolves and the requests
\* awaiting it go on before anything else runs: with true they send their
\* retry with the token just stored, with false each clears the tokens and
\* throws, and its caller goes on.
RefreshResponse(k, ok) ==
  /\ k \in DOMAIN refreshes
  /\ refreshes[k].state = "inflight"
  /\ refreshes' = [refreshes EXCEPT ![k].state = IF ok THEN "ok" ELSE "failed"]
  /\ isRefreshing' = FALSE
  /\ refreshPromise' = 0
  /\ IF ok
     THEN /\ accessToken' = RefreshedToken(k)
          /\ refreshToken' = RefreshedToken(k)
          /\ reqs' = [r \in DOMAIN reqs |->
                        IF r \in Awaiting(k)
                        THEN [reqs[r] EXCEPT !.state = "retried", !.sends = @ + 1,
                                             !.token = RetryToken(RefreshedToken(k), @)]
                        ELSE reqs[r]]
          /\ UNCHANGED <<user, authLoading>>
     ELSE /\ accessToken' = IF Awaiting(k) # {} THEN 0 ELSE accessToken
          /\ refreshToken' = IF Awaiting(k) # {} THEN 0 ELSE refreshToken
          /\ reqs' = [r \in DOMAIN reqs |->
                        IF r \in Awaiting(k)
                        THEN [reqs[r] EXCEPT !.state = "failed",
                                             !.err = "Session expired. Please log in again."]
                        ELSE reqs[r]]
          /\ user' = IF \E r \in Awaiting(k) : reqs[r].op \in {"logout", "getCurrentUser", "initAuth"}
                     THEN 0 ELSE user
          /\ authLoading' = IF \E r \in Awaiting(k) : reqs[r].op \in {"logout", "initAuth"}
                            THEN FALSE ELSE authLoading
  /\ UNCHANGED <<clientVars, calls, dbVars, orchVars, agentVars, recVars, profileVars>>

\* The retry of r is answered: anything but ok is thrown, a 401 included.
RetryResponse(r, status) ==
  /\ r \in DOMAIN reqs
  /\ reqs[r].state = "retried"
  /\ IF status = "ok" THEN Settle(r, TRUE, FALSE, None)
     ELSE Settle(r, FALSE, FALSE, "Request failed")
  /\ UNCHANGED <<clientVars, calls, dbVars, orchVars, agentVars, recVars, profileVars>>

Statuses == {"ok", "401", "error"}

AuthNext ==
  \/ login
  \/ logout
  \/ refreshUser
  \/ ApiCall
  \/ \E r \in 1..MaxReqs, status \in Statuses : FirstResponse(r, status)
  \/ \E k \in 1..MaxReqs, ok \in BOOLEAN : RefreshResponse(k, ok)
  \/ \E r \in 1..MaxReqs, status \in Statuses : RetryResponse(r, status)

\* The provider after mount: nothing is stored, or a former visit's tokens
\* are and initAuth has called refreshUser.
Mounted ==
  /\ isRefreshing = FALSE
  /\ refreshPromise = 0
  /\ refreshes = <<>>
  /\ user = 0
  /\ \/ /\ accessToken = 0 /\ refreshToken = 0
        /\ reqs = <<>>
        /\ authLoading = FALSE
     \/ /\ accessToken = 1 /\ refreshToken = 1
        /\ reqs = <<Request("initAuth", 1)>>
        /\ authLoading = TRUE

AuthInit ==
  /\ ChatInit
  /\ reco = NoReco
  /\ pick = NoPick
  /\ RecInit
  /\ ProfileInit
  /\ Mounted

AuthSpec == AuthInit /\ [][AuthNext]_vars

\* ------------------------------------------------------------- system
Next ==
  \/ \E m \in ActionTexts : SendMessage(m, TRUE)
  \/ \E m \in TypedTexts : SendMessage(m, FALSE)
  \/ \E c \in 1..MaxCalls : ChatResolve(c)
  \/ \E c \in 1..MaxCalls : ChatReject(c)
  \/ clearChat
  \/ \E c \in 1..MaxCalls, s \in Sessions : Receive(c, s)
  \/ \E s \in Sessions : Classify(s)
  \/ \E s \in Sessions : Dispatch(s)
  \/ \E s \in Sessions : AgentRun(s)
  \/ \E s \in Sessions : AgentRaise(s)
  \/ \E s \in Sessions : EmitConfirmation(s)
  \/ \E s \in Sessions : Respond(s)

Spec == Init /\ [][Next]_vars

\* The request handler runs each message to completion (one pipeline per
\* inbound request, no background work): a session's next step is taken.
ServerStep(s) ==
  \/ Classify(s)
  \/ Dispatch(s)
  \/ AgentRun(s)
  \/ AgentRaise(s)
  \/ EmitConfirmation(s)
  \/ Respond(s)

FairSpec == Spec /\ \A s \in Sessions : WF_vars(ServerStep(s))

\* ------------------------------------------------------------- classify alone
\* The classifier applied to every message of up to MaxLen words over a small
\* vocabulary, with and without a wine named, with and without an image, under
\* each of a few histories.
ClassifyWords ==
  {"remove", "Undo", "that", "never", "mind", "rate", "asdf", "second", "third"}

WordSeqs(n) == UNION {[1..k -> ClassifyWords] : k \in 0..n}

ClassifyMessages ==
  {Msg(w, r, img) : w \in WordSeqs(MaxLen), r \in {None, "b1"}, img \in BOOLEAN}

ClassifyHistories ==
  {<<>>,
   <<Entry("user", "user", None), Entry("assistant", "added", "b2")>>,
   <<Entry("user", "user", None), Entry("assistant", "confirm_request", "b1")>>,
   <<Entry("assistant", "added", "b2"), Entry("user", "user", None),
     Entry("assistant", "rated", "b1"), Entry("user", "user", None),
     Entry("assistant", "answer", None)>>,
   <<Entry("user", "user", None), CardEntry(<<"b1", "b2">>),
     Entry("user", "user", None)>>,
   <<CardEntry(<<"b1", "b2">>), Entry("user", "user", None),
     CardEntry(<<"b2">>), Entry("user", "user", None)>>,
   <<Entry("user", "user", None), CardEntry(<<"b2", "b1", "b3">>),
     Entry("user", "user", None)>>}

ClassifyInit ==
  /\ messages = <<WELCOME_MESSAGE>>
  /\ historyRef = <<>>
  /\ isLoading = TRUE
  /\ expectsCards = FALSE
  /\ error = None
  /\ sessionId = 0
  /\ \E m \in ClassifyMessages, h \in ClassifyHistories :
       calls = <<[Call(m, 0, h) EXCEPT !.server = "processing", !.sess = 1,
                                       !.seq = 1, !.nuser = 1]>>
  /\ cellar = [b \in Bottles |-> IF b = "b1" THEN 1 ELSE 0]
  /\ rated = {}
  /\ profile = {}
  /\ nsess = 1
  /\ mseq = [s \in Sessions |-> IF s = 1 THEN 1 ELSE 0]
  /\ ostate = [s \in Sessions |-> IF s = 1 THEN "Classifying" ELSE "Idle"]
  /\ cur = [s \in Sessions |-> IF s = 1 THEN 1 ELSE 0]
  /\ conf = [s \in Sessions |-> NoConf]
  /\ pending = [s \in Sessions |-> NoConf]
  /\ intent = [s \in Sessions |-> NoIntent]
  /\ handler = [s \in Sessions |-> NoHandler]
  /\ response = [s \in Sessions |-> NoResp]
  /\ reco = NoReco
  /\ pick = NoPick
  /\ WebInit

ClassifyNext == \E s \in Sessions : Classify(s)

ClassifySpec == ClassifyInit /\ [][ClassifyNext]_vars

\* ------------------------------------------------------------- recommend
\* Agent 1: the request is interpreted into a SearchQuery.
Interpret ==
  /\ reco.stage = "start"
  /\ reco' = [reco EXCEPT !.stage = "interpreted",
                          !.query = interpret(reco.description, reco.user_prefs,
                                              reco.chunks)]
  /\ UNCHANGED <<clientVars, calls, dbVars, orchVars, pick, webVars>>

\* Agent 2: the SearchQuery is executed against the catalog.
Search ==
  /\ reco.stage = "interpreted"
  /\ reco' = [reco EXCEPT !.stage = "searched",
                          !.recs = search(reco.query, reco.top_n)]
  /\ UNCHANGED <<clientVars, calls, dbVars, orchVars, pick, webVars>>

\* The pipeline applied to every request of up to MaxDesc phrases, under each
\* of a few stored preferences and retrieval results.
MaxDesc == 2

PhraseSeqs(n) == UNION {[1..k -> UserPhrases] : k \in 0..n}

PrefsInputs ==
  {UserPreferences(b[1], b[2], t, f) :
     b \in {NoRange, <<20, 60>>}, t \in {None, "white"},
     f \in {None, "fish"}}

ChunkInputs == {<<>>, <<"bold">>, <<"bold", "oaky">>, <<"oaky", "oaky">>}

TopNInputs == {NoTopN, 1, 2}

RecommendInit ==
  /\ ChatInit
  /\ pick = NoPick
  /\ WebInit
  /\ \E d \in PhraseSeqs(MaxDesc), p \in PrefsInputs, c \in ChunkInputs,
        n \in TopNInputs :
       reco = [NoReco EXCEPT !.stage = "start", !.description = d,
                             !.user_prefs = p, !.chunks = c, !.top_n = n]

RecommendNext == Interpret \/ Search

RecommendSpec == RecommendInit /\ [][RecommendNext]_vars

\* ------------------------------------------------------------- search alone
\* search applied to every SearchQuery over a few values of each filter and
\* every query text of up to MaxDesc words.
QueryTexts == UNION {[1..k -> UserPhrases \cup KnowledgeFacts] : k \in 0..MaxDesc}

SearchQueries ==
  {[NoQuery EXCEPT !.query_text = t, !.user_request = t, !.price_range = pr,
                   !.wine_type_filter = ty, !.region_filter = rg,
                   !.country_filter = co, !.varietal_filter = va] :
     t \in QueryTexts,
     pr \in {NoRange, <<NoPrice, 40>>, <<20, 40>>, <<40, 60>>},
     ty \in {None, "red", "white"}, rg \in {None, "napa"},
     co \in {None, "italy"}, va \in {None, "cabernet"}}

SearchInit ==
  /\ ChatInit
  /\ pick = NoPick
  /\ WebInit
  /\ \E q \in SearchQueries, n \in TopNInputs :
       reco = [NoReco EXCEPT !.stage = "interpreted", !.query = q, !.top_n = n]

SearchNext == Search

SearchSpec == SearchInit /\ [][SearchNext]_vars

\* ------------------------------------------------------------- decide
\* DecideAgent.handle answers with its pick.
Decide ==
  /\ pick.stage = "start"
  /\ pick' = [pick EXCEPT !.stage = "done", !.response = decide(pick.rows)]
  /\ UNCHANGED <<clientVars, calls, dbVars, orchVars, reco, webVars>>

\* decide applied to every cellar of up to MaxBottles rows, each row with any
\* status and any score up to MaxScore.
MaxBottles == 3
MaxScore == 3

CellarRows ==
  UNION {[1..k -> {CellarBottle(1, st, sc) : st \in BottleStatuses, sc \in 0..MaxScore}]
           : k \in 0..MaxBottles}

\* The rows of a cellar are told apart by their id: row i has id i.
WithIds(rows) == [i \in 1..Len(rows) |-> [rows[i] EXCEPT !.id = i]]

DecideInit ==
  /\ ChatInit
  /\ reco = NoReco
  /\ WebInit
  /\ \E rows \in CellarRows :
       pick = [NoPick EXCEPT !.stage = "start", !.rows = WithIds(rows)]

DecideNext == Decide

DecideSpec == DecideInit /\ [][DecideNext]_vars

\* ------------------------------------------------------------- properties
\* Session s's handler step: the agent returns or raises.
HandlerStep(s) == ostate[s] = "AgentHandling" /\ ostate'[s] # "AgentHandling"

C3_CancelLeavesCellar ==
  [][\A s \in Sessions :
       ( /\ HandlerStep(s)
         /\ conf[s] # NoConf
         /\ is_correction(calls[cur[s]].content) )
       => /\ cellar' = cellar
          /\ handler[s].name \notin {"cellar_remove", "confirm_cellar_remove"}
    ]_vars

C6_OneResponsePerMessage ==
  \A c \in DOMAIN calls :
    /\ calls[c].ndisp <= 1
    /\ calls[c].nresp = IF calls[c].server = "replied" THEN 1 ELSE 0
    /\ calls[c].nuser = 1
    /\ calls[c].nasst = IF calls[c].client = "pending" THEN 0 ELSE 1
    /\ \A i, j \in DOMAIN messages :
         ( /\ messages[i].call = c /\ messages[j].call = c
           /\ messages[i].role = "user" /\ messages[j].role = "assistant" )
         => i < j
    /\ Cardinality({i \in DOMAIN messages : messages[i].call = c}) <= 2

\* One call succeeded and another failed, and both their messages are shown.
C6_Witness ==
  \E c, d \in DOMAIN calls :
    /\ calls[c].client = "done" /\ calls[c].nresp = 1 /\ calls[c].ndisp = 1
    /\ calls[d].client = "failed" /\ calls[d].nasst = 1
    /\ Cardinality({i \in DOMAIN messages : messages[i].call = c}) = 2
    /\ Cardinality({i \in DOMAIN messages : messages[i].call = d}) = 2

\* Session s's handler raises.
RaiseStep(s) == HandlerStep(s) /\ response'[s].kind = "error"

\* Session s sends out the error response.
ErrorRespondStep(s) ==
  ostate[s] = "Responding" /\ ostate'[s] # "Responding" /\ response[s].kind = "error"

C8_AmbiguousShortCircuits ==
  [][\A s \in Sessions :
       /\ ( /\ ostate[s] = "Classifying" /\ ostate'[s] # "Classifying"
            /\ intent'[s].is_ambiguous )
          => /\ ostate'[s] = "Responding"
             /\ response'[s].kind = "clarify"
             /\ response'[s].confirmation = NoConf
             /\ handler'[s] = NoHandler
             /\ UNCHANGED dbVars
       /\ (ostate'[s] # ostate[s] /\ intent[s].is_ambiguous)
          => /\ ostate[s] = "Responding" /\ ostate'[s] = "Idle"
             /\ handler[s] = NoHandler
             /\ calls[cur[s]].ndisp = 0
             /\ calls'[cur[s]].resp.kind = "clarify"
             /\ pending'[s] = NoConf
             /\ UNCHANGED dbVars
    ]_vars

\* The clarifying question is about to go out for a message with no target.
C8_Witness ==
  \E s \in Sessions :
    /\ ostate[s] = "Responding"
    /\ intent[s].is_ambiguous
    /\ intent[s].type = "cellar_remove"
    /\ response[s].kind = "clarify"
    /\ calls[cur[s]].ndisp = 0

\* C9: a message being classified is eventually being responded to, a message
\* being responded to is eventually done with the session back in Idle, and
\* every change of a session's state is an edge of the declared machine.
C9_TerminatesInIdle ==
  /\ \A s \in Sessions : (ostate[s] = "Classifying") ~> (ostate[s] = "Responding")
  /\ \A s \in Sessions : (ostate[s] = "Responding") ~> (ostate[s] = "Idle")
  /\ [][\A s \in Sessions :
          ostate'[s] # ostate[s] => <<ostate[s], ostate'[s]>> \in DeclaredEdges]_vars

\* Messages have been answered on the exception branch, the ambiguity branch,
\* the confirmation branch and the agent branch, and every session is Idle.
C9_Witness ==
  /\ \A s \in Sessions : ostate[s] = "Idle"
  /\ \E i, j, k \in DOMAIN messages :
       /\ messages[i].kind \in {"error", "clarify"}
       /\ messages[j].kind = "confirm_request"
       /\ messages[k].kind \in {"added", "removed", "answer"}

\* C10: classify yields an Intent whatever the message, attachment and history,
\* its type is one of the 13 taxonomy values, and a message that is no
\* correction and whose label is none of the taxonomy's has type unclear.
C10_ClassifyTotal ==
  \A s \in Sessions :
    ostate[s] \in {"Dispatching", "Responding"}
    => LET m == calls[cur[s]].content
       IN /\ intent[s] # NoIntent
          /\ DOMAIN intent[s] = DOMAIN NoIntent
          /\ intent[s].type \in IntentTypes
          /\ intent[s].is_ambiguous \in BOOLEAN
          /\ (~is_correction(m) /\ RawLabel(m, Attachments(m)) \notin IntentTypes)
             => intent[s].type = "unclear"
          /\ is_correction(m) => intent[s].type = "correction"

\* An empty message and an unintelligible one have each been classified unclear.
C10_Witness ==
  \E s \in Sessions :
    /\ ostate[s] = "Dispatching"
    /\ intent[s].type = "unclear"
    /\ calls[cur[s]].content.words \in {<<>>, <<"asdf", "asdf", "asdf">>}

\* A message matches a correction pattern: one of the patterns occurs in its
\* words, whatever their case.
MatchesCorrectionPattern(m) ==
  \E p \in CORRECTION_PATTERNS :
    \E i \in 1..Len(m.words) :
      /\ i + Len(p) - 1 <= Len(m.words)
      /\ \A j \in 1..Len(p) : Lower(m.words[i + j - 1]) = p[j]

\* The last action a history records: the action of its last assistant entry
\* that reports an action, none when no entry does.
LastRecordedAction(h) ==
  LET idx == {i \in 1..Len(h) : h[i].role = "assistant" /\ h[i].kind \in ActionKinds}
  IN IF idx = {} THEN NoAction
     ELSE LET l == CHOOSE i \in idx : \A j \in idx : j <= i
          IN [type |-> ActionOfKind(h[l].kind), ref |-> h[l].ref]

\* C11: a message that matches a correction pattern is classified correction
\* whatever intent its words, its attachment or the wine it names would
\* otherwise give it, and its correction_target is the last action the history
\* it came with records.
C11_CorrectionTakesPrecedence ==
  \A s \in Sessions :
    ostate[s] \in {"Dispatching", "Responding"}
    => LET m == calls[cur[s]].content
       IN MatchesCorrectionPattern(m)
          => /\ intent[s].type = "correction"
             /\ intent[s].correction_target = LastRecordedAction(calls[cur[s]].history)

\* The undo button's text, with an image attached and a wine named, has been
\* classified correction with the later of the history's two actions as target;
\* without the pattern the attachment alone makes a message analyze_photo.
C11_Witness ==
  \E s \in Sessions :
    /\ ostate[s] = "Dispatching"
    /\ calls[cur[s]].content = Msg(<<"Undo", "that">>, "b1", TRUE)
    /\ RawLabel(calls[cur[s]].content, 1) = "analyze_photo"
    /\ Len(calls[cur[s]].history) = 5
    /\ intent[s].type = "correction"
    /\ intent[s].correction_target = [type |-> "rate", ref |-> "b1"]

\* The cards of the most recent assistant message of a history, none when the
\* history holds no assistant message.
LastCards(h) ==
  LET idx == {i \in 1..Len(h) : h[i].role = "assistant"}
  IN IF idx = {} THEN <<>>
     ELSE h[CHOOSE i \in idx : \A j \in idx : j <= i].cards

\* The one entity of the most recent assistant message: its only card, or the
\* wine its text is about; None when it has none or several.
SingularEntity(h) ==
  LET idx == {i \in 1..Len(h) : h[i].role = "assistant"}
  IN IF idx = {} THEN None
     ELSE LET e == h[CHOOSE i \in idx : \A j \in idx : j <= i]
          IN IF Len(e.cards) = 1 THEN e.cards[1]
             ELSE IF e.cards = <<>> THEN e.ref ELSE None

\* C12: reference resolution follows the priority explicit name > ordinal
\* position in the last card list > singular recent entity: a named wine is
\* the reference whatever the ordinal and the recent entity say, an ordinal
\* within the card list is the reference when no wine is named, and the
\* singular recent entity is the reference only when no wine is named and no
\* ordinal resolves.
C12_ResolutionPriority ==
  \A s \in Sessions :
    (ostate[s] \in {"Dispatching", "Responding"} /\ intent[s].type # "correction")
    => LET m == calls[cur[s]].content
           h == calls[cur[s]].history
           k == OrdinalOf(m)
           refs == intent[s].resolved_references
       IN /\ m.ref # None => refs = <<m.ref>>
          /\ (m.ref = None /\ k \in 1..Len(LastCards(h))) => refs = <<LastCards(h)[k]>>
          /\ (m.ref = None /\ k \notin 1..Len(LastCards(h)) /\ refs # <<>>)
             => /\ HasPronoun(m)
                /\ SingularEntity(h) # None
                /\ refs = <<SingularEntity(h)>>

\* A message that names b1, holds the ordinal "second" and the pronoun "that",
\* sent after a reply with the cards b1 and b2, has been resolved to the wine
\* it names and not to the second card.
C12_Witness ==
  \E s \in Sessions :
    /\ ostate[s] = "Dispatching"
    /\ calls[cur[s]].content = Msg(<<"rate", "that", "second">>, "b1", FALSE)
    /\ LastCards(calls[cur[s]].history) = <<"b1", "b2">>
    /\ intent[s].resolved_references = <<"b1">>
    /\ ~intent[s].is_ambiguous

C13_WitnessUnresolved ==
  \E s \in Sessions :
    /\ ostate[s] = "Responding"
    /\ calls[cur[s]].content = Msg(<<"third">>, None, FALSE)
    /\ LastCards(calls[cur[s]].history) = <<"b1", "b2">>
    /\ intent[s].is_ambiguous
    /\ intent[s].resolved_references = <<>>

\* A wine satisfies every hard filter present in a query.
SatisfiesHardFilters(w, q) ==
  /\ (q.price_range[1] = NoPrice \/ w.price >= q.price_range[1])
  /\ (q.price_range[2] = NoPrice \/ w.price <= q.price_range[2])
  /\ (q.wine_type_filter = None \/ w.wine_type = q.wine_type_filter)
  /\ (q.region_filter = None \/ w.region = q.region_filter)
  /\ (q.country_filter = None \/ w.country = q.country_filter)
  /\ (q.varietal_filter = None \/ w.varietal = q.varietal_filter)

MidpointDistance(w, q) ==
  IF q.price_range[1] = NoPrice \/ q.price_range[2] = NoPrice THEN 0
  ELSE IF 2 * w.price >= q.price_range[1] + q.price_range[2]
       THEN 2 * w.price - (q.price_range[1] + q.price_range[2])
       ELSE (q.price_range[1] + q.price_range[2]) - 2 * w.price

\* C15: the list search returns is ordered by similarity descending; among
\* equal similarities the higher rating comes first, and among equal
\* similarities and ratings the price closer to the midpoint of the requested
\* range comes first.
C15_RankingOrder ==
  reco.stage = "searched"
  => \A i, j \in 1..Len(reco.recs) :
       i < j
       => LET a == reco.recs[i]
              b == reco.recs[j]
          IN /\ a.relevance_score >= b.relevance_score
             /\ a.relevance_score = Similarity(reco.query.query_text, a.wine)
             /\ a.relevance_score = b.relevance_score
                => a.wine.rating >= b.wine.rating
             /\ (a.relevance_score = b.relevance_score /\ a.wine.rating = b.wine.rating)
                => MidpointDistance(a.wine, reco.query) <= MidpointDistance(b.wine, reco.query)

\* Three wines have been returned: the first two tie on similarity and rating
\* and the one nearer the midpoint of the range is first although it is the
\* dearer; the last two tie on similarity and the lower-rated one is last
\* although it is nearer the midpoint than the wine before it.
C15_Witness ==
  /\ reco.stage = "searched"
  /\ Len(reco.recs) = 3
  /\ reco.recs[1].relevance_score = reco.recs[3].relevance_score
  /\ reco.recs[1].wine.rating = reco.recs[2].wine.rating
  /\ MidpointDistance(reco.recs[1].wine, reco.query)
       < MidpointDistance(reco.recs[2].wine, reco.query)
  /\ reco.recs[1].wine.price > reco.recs[2].wine.price
  /\ reco.recs[2].wine.rating > reco.recs[3].wine.rating
  /\ MidpointDistance(reco.recs[3].wine, reco.query)
       < MidpointDistance(reco.recs[2].wine, reco.query)

\* C16: search returns at most top_n recommendations, 3 when top_n is not
\* given, and an empty list when no wine of the catalog survives the filters.
C16_AtMostTopN ==
  reco.stage = "searched"
  => /\ Len(reco.recs) <= (IF reco.top_n = NoTopN THEN 3 ELSE reco.top_n)
     /\ (\A a \in 1..Len(Catalog) : ~SatisfiesHardFilters(Catalog[a], reco.query))
        => reco.recs = <<>>
     /\ \A i, j \in 1..Len(reco.recs) : i # j => reco.recs[i].wine # reco.recs[j].wine

\* With top_n not given and four wines surviving the filters, three have been
\* returned.
C16_Witness ==
  /\ reco.stage = "searched"
  /\ reco.top_n = NoTopN
  /\ Cardinality({a \in 1..Len(Catalog) : SatisfiesHardFilters(Catalog[a], reco.query)}) = 4
  /\ Len(reco.recs) = 3

\* A valid query that no wine survives (white wines of Napa) has been answered
\* with the empty list.
C16_WitnessEmpty ==
  /\ reco.stage = "searched"
  /\ reco.query.wine_type_filter = "white"
  /\ reco.query.region_filter = "napa"
  /\ reco.recs = <<>>

\* C17: for every filter field of the SearchQuery interpret builds, a value
\* the user's message yields is the field's value whatever user_prefs holds,
\* and the field is null when neither the message nor user_prefs gives one.
C17_ExtractedTakesPrecedence ==
  reco.stage \in {"interpreted", "searched"}
  => LET x == extract_filters(reco.description)
         p == reco.user_prefs
         q == reco.query
     IN /\ x.price_min # NoPrice => q.price_range[1] = x.price_min
        /\ x.price_max # NoPrice => q.price_range[2] = x.price_max
        /\ x.wine_type # None => q.wine_type_filter = x.wine_type
        /\ x.region # None => q.region_filter = x.region
        /\ x.country # None => q.country_filter = x.country
        /\ x.occasion # None => q.occasion = x.occasion
        /\ x.food_pairing # None => q.food_pairing = x.food_pairing
        /\ (x.price_min = NoPrice /\ p.budget_min = NoPrice) => q.price_range[1] = NoPrice
        /\ (x.price_max = NoPrice /\ p.budget_max = NoPrice) => q.price_range[2] = NoPrice
        /\ (x.wine_type = None /\ p.wine_type_pref = None) => q.wine_type_filter = None
        /\ x.region = None => q.region_filter = None
        /\ x.country = None => q.country_filter = None
        /\ x.occasion = None => q.occasion = None
        /\ (x.food_pairing = None /\ p.food_pairing = None) => q.food_pairing = None

\* The fields interpret passes to SearchQuery (price_range, wine_type_filter,
\* region_filter, occasion) hold the extracted value when there is one; the
\* stored budget and wine type are used only when the message yields none, and
\* the field is null when neither gives a value.
C17_PassedFieldsFollowPrecedence ==
  reco.stage \in {"interpreted", "searched"}
  => LET x == extract_filters(reco.description)
         p == reco.user_prefs
         q == reco.query
     IN /\ x.price_max # NoPrice => q.price_range = <<x.price_min, x.price_max>>
        /\ x.wine_type # None => q.wine_type_filter = x.wine_type
        /\ q.region_filter = x.region
        /\ q.occasion = x.occasion
        /\ (x.price_min = NoPrice /\ x.price_max = NoPrice)
           => q.price_range = <<p.budget_min, p.budget_max>>
        /\ x.wine_type = None => q.wine_type_filter = p.wine_type_pref

\* "red ... steak" has been interpreted while the stored preferences say white
\* and fish: the wine type is the extracted one.
C17_Witness ==
  /\ reco.stage = "interpreted"
  /\ reco.description = <<"red", "steak">>
  /\ reco.user_prefs.wine_type_pref = "white"
  /\ reco.user_prefs.food_pairing = "fish"
  /\ reco.query.wine_type_filter = "red"

\* C18: in the SearchQuery Agent 1 builds, and after Agent 2 has run,
\* user_request is the user's literal request and holds no retrieved
\* knowledge, category_knowledge holds only facts of the retrieved chunks, and
\* the explanation of every recommendation is given the two apart; query_text
\* alone combines them.
C18_RequestAndKnowledgeApart ==
  reco.stage \in {"interpreted", "searched"}
  => LET q == reco.query
     IN /\ q.user_request = reco.description
        /\ \A i \in 1..Len(q.user_request) : q.user_request[i] \notin KnowledgeFacts
        /\ \A i \in 1..Len(q.category_knowledge) :
             /\ q.category_knowledge[i] \in KnowledgeFacts
             /\ \E j \in 1..Len(reco.chunks) : reco.chunks[j] = q.category_knowledge[i]
        /\ \A i \in 1..Len(reco.recs) :
             /\ reco.recs[i].explanation.asked = reco.description
             /\ reco.recs[i].explanation.education = q.category_knowledge

\* A request has gone through both agents with knowledge retrieved: query_text
\* holds the request followed by the facts, and a wine has been explained.
C18_Witness ==
  /\ reco.stage = "searched"
  /\ reco.description = <<"napa", "red">>
  /\ reco.chunks = <<"bold", "oaky">>
  /\ reco.query.query_text = <<"napa", "red", "bold", "oaky">>
  /\ reco.query.category_knowledge = <<"bold", "oaky">>
  /\ reco.recs # <<>>

\* The owned rows of the cellar the decide agent read.
OwnedRows == {i \in 1..Len(pick.rows) : pick.rows[i].status = "owned"}

\* C19: with zero owned bottles decide returns the empty-cellar message and no
\* bottle; a bottle whose status is tried or wishlist is never the pick.
C19_EmptyCellarAndOwnedOnly ==
  pick.stage = "done"
  => /\ OwnedRows = {}
        => /\ pick.response.message = "empty_cellar"
           /\ pick.response.cards = <<>>
     /\ \A i \in 1..Len(pick.response.cards) :
          pick.response.cards[i].status = "owned"

\* A cellar that holds only a tried and a wishlist bottle, both with the top
\* score, has been answered with the empty-cellar message.
C19_Witness ==
  /\ pick.stage = "done"
  /\ Len(pick.rows) = 2
  /\ pick.rows[1] = CellarBottle(1, "tried", MaxScore)
  /\ pick.rows[2] = CellarBottle(2, "wishlist", MaxScore)
  /\ pick.response.message = "empty_cellar"
  /\ pick.response.cards = <<>>

\* C20: with at least one owned bottle decide returns exactly one bottle, one
\* with the maximum score among the owned bottles, and the response is hedged
\* if and only if that maximum score is below the minimum relevance.
C20_BestBottleAndHedge ==
  (pick.stage = "done" /\ OwnedRows # {})
  => /\ Len(pick.response.cards) = 1
     /\ pick.response.cards[1].status = "owned"
     /\ \A i \in OwnedRows : pick.rows[i].score <= pick.response.cards[1].score
     /\ pick.response.message = "in_a_pinch"
        <=> \A i \in OwnedRows : pick.rows[i].score < MinRelevance

\* With at least one owned bottle decide returns exactly one bottle, an owned
\* one, hedged if and only if no owned bottle reaches the minimum relevance;
\* when one does, the bottle returned has the maximum score.
C20_OneOwnedBottleAndHedge ==
  (pick.stage = "done" /\ OwnedRows # {})
  => /\ Len(pick.response.cards) = 1
     /\ pick.response.cards[1].status = "owned"
     /\ pick.response.message = "in_a_pinch"
        <=> \A i \in OwnedRows : pick.rows[i].score < MinRelevance
     /\ pick.response.message = "winner"
        => \A i \in OwnedRows : pick.rows[i].score <= pick.response.cards[1].score

\* Two owned bottles below the minimum relevance: the hedged answer offers the
\* first row although the second scores higher.
C20_Witness ==
  /\ pick.stage = "done"
  /\ pick.response.message = "in_a_pinch"
  /\ \E i \in OwnedRows : pick.rows[i].score > pick.response.cards[1].score
\* The conversation so far as history entries: every message shown after the
\* welcome message, in the order shown.
Conversation == HistoryOf(Tail(messages))

Min(a, b) == IF a < b THEN a ELSE b

\* h holds exactly the last n entries of all, in their order.
IsLastOf(h, all, n) ==
  /\ Len(h) = Min(Len(all), n)
  /\ \A i \in 1..Len(h) : h[i] = all[Len(all) - Len(h) + i]

\* C21: the rolling history holds at most 20 entries, exactly the most recent
\* messages of the conversation in their order and as they were appended; the
\* request of every sendMessage call carries the last 10 of them at most, the
\* call's own user message last.
C21_HistoryBoundedAndRecent ==
  [][ /\ Len(historyRef') <= 20
      /\ IsLastOf(historyRef', Conversation', 20)
      /\ Len(calls') = Len(calls) + 1 =>
           LET sent == calls'[Len(calls')].history
           IN /\ Len(sent) <= 10
              /\ IsLastOf(sent, historyRef', 10)
              /\ sent[Len(sent)] = Entry("user", "user", None) ]_vars

\* More than 20 messages have been exchanged, the history has dropped the
\* oldest, and the request in flight carries 10 entries.
C21_Witness ==
  /\ Len(Conversation) > 20
  /\ Len(historyRef) = 20
  /\ historyRef[1] # Conversation[1]
  /\ \E c \in DOMAIN calls : calls[c].server = "sent" /\ Len(calls[c].history) = 10

\* C22: no chat message contains the text of an exception: after a failed
\* request the chat holds a fixed fallback message, and the message string of
\* the error is part of no message's content.
C22_NoRawExceptionText ==
  \A i \in DOMAIN recMessages :
    \A e \in ErrorMessages : ~Has(recMessages[i].content, e)

\* The attributes of a wine a rating speaks about: its body and sweetness.
WineAttributes(wine) == {wine.body, wine.sweetness}

\* C23: every rating event leaves the signals of earlier events in the
\* profile; a rating of 4 or 5 puts the wine's attributes (and its
\* characteristics) among the preferred, a rating of 1 or 2 puts them among
\* the avoided, except where the event's notes say the opposite: what the
\* notes say is in the profile, and the opposite signal inferred from the
\* rating is not added.
C23_ProfileBuiltIncrementally ==
  [][ Len(ratings') = Len(ratings) + 1 =>
        LET e == ratings'[Len(ratings')]
            was == userProfile
            now == userProfile'
        IN /\ was.preferred_attributes \subseteq now.preferred_attributes
           /\ was.avoided_attributes \subseteq now.avoided_attributes
           /\ now.total_ratings = Len(ratings')
           /\ e.rating >= 4 =>
                \A a \in WineAttributes(e.wine) \cup e.wine.characteristics :
                  a \in e.notes.avoided \/ a \in now.preferred_attributes
           /\ e.rating <= 2 =>
                \A a \in WineAttributes(e.wine) :
                  a \in e.notes.preferred \/ a \in now.avoided_attributes
           /\ \A a \in e.notes.preferred :
                /\ a \in now.preferred_attributes
                /\ a \in now.avoided_attributes => a \in was.avoided_attributes
           /\ \A a \in e.notes.avoided :
                /\ a \in now.avoided_attributes
                /\ a \in now.preferred_attributes => a \in was.preferred_attributes ]_vars

\* The Riesling was rated 2 and the Barolo then 5 with notes that call it too
\* dry: sweet is still avoided, earthy is preferred, and dry is avoided and
\* not preferred.
C23_Witness ==
  /\ Len(ratings) = 2
  /\ ratings[1].wine = Riesling /\ ratings[1].rating = 2
  /\ ratings[2].wine = Barolo /\ ratings[2].rating = 5
  /\ "dry" \in ratings[2].notes.avoided
  /\ "sweet" \in userProfile.avoided_attributes
  /\ "earthy" \in userProfile.preferred_attributes
  /\ "dry" \in userProfile.avoided_attributes
  /\ "dry" \notin userProfile.preferred_attributes

\* The refresh requests that have not been answered.
RefreshesInFlight == {k \in DOMAIN refreshes : refreshes[k].state = "inflight"}

\* C24: at most one refresh request is in flight; a request that gets 401
\* while a refresh is running awaits that refresh instead of starting one,
\* and every request that awaited a refresh got that refresh's outcome: a
\* retry if it succeeded, the session-expired error if it failed.
C24_SingleRefreshInFlight ==
  /\ Cardinality(RefreshesInFlight) <= 1
  /\ isRefreshing <=> RefreshesInFlight # {}
  /\ \A r \in DOMAIN reqs :
       /\ reqs[r].state = "refreshing" => reqs[r].refresh \in RefreshesInFlight
       /\ reqs[r].sends = 2 => refreshes[reqs[r].refresh].state = "ok"
       /\ (reqs[r].refresh # 0 /\ reqs[r].sends = 1 /\ reqs[r].state = "failed")
            => refreshes[reqs[r].refresh].state = "failed"

\* Two requests awaited the same refresh, the only one made, and both were
\* retried after it succeeded.
C24_Witness ==
  \E r, q \in DOMAIN reqs :
    /\ r # q
    /\ reqs[r].refresh = 1 /\ reqs[q].refresh = 1
    /\ reqs[r].sends = 2 /\ reqs[q].sends = 2
    /\ Len(refreshes) = 1

\* C25: an authenticated call sends its request at most twice and calls for
\* a refresh at most once; the retry goes out once, with the access token
\* the refresh stored, and a failed retry is thrown without another refresh;
\* when the refresh fails or no refresh token is stored, the tokens are
\* cleared and the call throws the session-expired error without a retry.
C25_AtMostOneRetry ==
  [][ \A r \in DOMAIN reqs' :
        LET q == reqs'[r]
        IN /\ q.sends <= 2
           /\ q.nrefresh <= 1
           /\ q.sends = 2 =>
                /\ q.nrefresh = 1
                /\ q.token = RefreshedToken(q.refresh)
                /\ q.state \in {"retried", "ok", "failed"}
                /\ q.state = "failed" => q.err = "Request failed"
           /\ ( /\ q.err = "Session expired. Please log in again."
                /\ (r \in DOMAIN reqs => reqs[r].err = None) )
                => /\ q.sends = 1
                   /\ q.nrefresh = 1
                   /\ q.state = "failed"
                   /\ accessToken' = 0
                   /\ refreshToken' = 0 ]_vars

\* One call was retried with the refreshed token and its retry failed with a
\* 401; another call found no refresh token and threw session expired.
C25_Witness ==
  \E r, q \in DOMAIN reqs :
    /\ reqs[r].sends = 2 /\ reqs[r].state = "failed" /\ reqs[r].token = RefreshedToken(1)
    /\ reqs[q].sends = 1 /\ reqs[q].refresh = 0
    /\ reqs[q].err = "Session expired. Please log in again."

\* A logout has completed, and no login is under way or was started after it.
LoggedOut ==
  \E r \in DOMAIN reqs :
    /\ reqs[r].op = "logout"
    /\ reqs[r].state \in {"ok", "failed"}
    /\ \A q \in DOMAIN reqs :
         reqs[q].op = "login" => (q < r /\ reqs[q].state # "sent")

\* C26: once logout has completed, whether its request succeeded or failed,
\* no access token and no refresh token are stored and user is null, also
\* when a refresh started by another request was in flight at logout.
C26_LoggedOutHoldsNothing ==
  LoggedOut => (accessToken = 0 /\ refreshToken = 0 /\ user = 0)

\* C30: a non-null user (isAuthenticated) implies that tokens are stored.
C30_UserImpliesTokens ==
  user # 0 => (accessToken # 0 /\ refreshToken # 0)

\* The session id of the response processed last since the conversation was
\* last cleared (0: none): the session of the call the last reply shown
\* belongs to.
LastSessionId ==
  LET replies == {i \in DOMAIN messages :
                    /\ messages[i].role = "assistant"
                    /\ messages[i].kind \notin {"welcome", "fallback"}
                    /\ messages[i].call # 0}
  IN IF replies = {} THEN 0
     ELSE calls[messages[CHOOSE i \in replies : \A j \in replies : j <= i].call].sess

\* C27: every request sendMessage starts, from the text input or from an
\* action button, carries the session id of the response processed last, and
\* none when no response has been processed since the hook was set up or
\* clearChat was called.
C27_RequestCarriesLastSession ==
  [][ Len(calls') = Len(calls) + 1 =>
        /\ calls'[Len(calls')].sid = LastSessionId
        /\ calls'[Len(calls')].sid = sessionId ]_vars

\* Two overlapping calls were answered from two sessions, and the call
\* started after both responses carries the session of the later response.
C27_Witness ==
  /\ Len(calls) = 3
  /\ calls[1].sess = 1 /\ calls[2].sess = 2
  /\ calls[1].sid = 0 /\ calls[2].sid = 0
  /\ calls[3].sid = 2
  /\ calls[3].content = ConfirmText

\* C28: isLoading is true whenever a request started by sendMessage awaits
\* its response, overlapping requests included.
C28_LoadingWhileInFlight == InFlight # {} => isLoading

\* The conversation as clearChat leaves it.
Cleared == messages = <<WELCOME_MESSAGE>> /\ historyRef = <<>> /\ sessionId = 0

\* C29: clearChat leaves only the welcome message, an empty history and no
\* session id, and nothing but the next sendMessage changes that: a response
\* to a request started before the clear appends nothing and restores no
\* session id.
C29_ClearedUntilNextSend ==
  [][ /\ clearChat => Cleared'
      /\ (Cleared /\ Len(calls') = Len(calls)) => Cleared' ]_vars

====
